---- MODULE Spec2Model ----
(***************************************************************************)
(* Melting-tank quality API: the bounded prediction history                *)
(* (app/storage.py), the dashboard metrics computed from it                *)
(* (app/dashboard.py) and the prediction pipeline (app/schemas.py,         *)
(* app/inference.py, app/utils.py, app/main.py).                           *)
(*                                                                         *)
(* Numbers.  A float is an integer number of units, One units making 1.0,   *)
(* and has MantissaBits significant bits; a product of floats is rounded   *)
(* to the nearest float, ties to even, as Python rounds it.  A percentage  *)
(* is the float product of the probability and 100.0, so One units make    *)
(* one percent.  A quotient is kept as numerator and denominator.  A       *)
(* timestamp is a reading of a clock that advances with every reading.     *)
(***************************************************************************)
EXTENDS Integers, Sequences, FiniteSets, TLC

VARIABLES
    THRESHOLD,          \* main.py, dashboard.py: the global read from the environment
    PREDICTION_HISTORY, \* storage.py: the global list of records
    clock,              \* the server clock read by datetime.now
    wpc,                \* per caller of add_prediction_result: its position
    wrec,               \* per caller: the local variable `record`
    log,                \* history variable: every record appended, in append order
    removed,            \* history variable: per caller, records popped by its current call
    rpc,                \* the metrics read: its position
    r_idx,              \* the metrics read: index of the running list iterator
    r_timestamps,       \* the metrics read: local list `timestamps`
    r_prob_ng_raw,      \* the metrics read: local list `prob_ng_raw`
    r_seen,             \* history variable: the list's length when line 24 tested it
    metrics,            \* the value _build_dashboard_metrics returned
    last_metrics,       \* history variable: the value the last read returned, kept
                        \* while the history is as that read collected it
    ppc,                \* the prediction call: its position
    entry,              \* the prediction call: the function that was called
    authorized,         \* the prediction call: the x-api-key header matched
    readings,           \* the prediction call: the rows received
    df,                 \* prepare_lstm_input's df_raw, as a matrix of cells
    data_scaled,        \* prepare_lstm_input's data_scaled
    X_inference,        \* the tensor prepare_lstm_input returned
    prob_ng,            \* the probability predict_prob returned
    exc,                \* the exception in flight, if any
    label,              \* post_process's label
    calls,              \* history variable: the checks and collaborator calls made, in order
    predict_arg,        \* history variable: the tensor model.predict was called with
    alerts,             \* the request's background tasks
    response            \* the HTTP response, or the direct call's result

storeVars == <<PREDICTION_HISTORY, clock, wpc, wrec, log, removed>>
readVars == <<rpc, r_idx, r_timestamps, r_prob_ng_raw, r_seen, metrics>>
predictVars ==
    <<ppc, entry, authorized, readings, df, data_scaled, X_inference, prob_ng,
      exc, label, calls, predict_arg, alerts, response>>
vars == <<THRESHOLD, storeVars, readVars, last_metrics, predictVars>>

----------------------------------------------------------------------------
(* Bounds of the model *)

\* storage.py sets the capacity to 30; the model keeps the code and scales
\* the capacity down.
MAX_HISTORY == 3

\* dashboard.py uses a recent window of 10; scaled down with the capacity.
RECENT_WINDOW_DEFAULT == 2

\* Calls of add_prediction_result over a run.
MaxCalls == 5

\* Significant bits of a float; Python's float has 53.
MantissaBits == 7

(* Program constants *)
STREAK_N == 3

\* the float 1.0
One == 1024

Writers == {"w1", "w2"}
NoRecord == [timestamp |-> 0, prob_ng |-> 0]
\* Python's None
None == [none |-> TRUE]
\* no metrics read has returned
NoMetrics == [pending |-> TRUE]
----------------------------------------------------------------------------
(* Helpers *)

Min(a, b) == IF a < b THEN a ELSE b
Max(a, b) == IF a > b THEN a ELSE b

\* Python's xs[-n:] for 0 <= n: the last n elements, and the whole list for n = 0.
LastN(xs, n) ==
    IF n = 0 \/ n >= Len(xs) THEN xs ELSE SubSeq(xs, Len(xs) - n + 1, Len(xs))

RECURSIVE SeqSum(_)
SeqSum(xs) == IF xs = <<>> THEN 0 ELSE Head(xs) + SeqSum(Tail(xs))

----------------------------------------------------------------------------
(* Python floats *)

\* the largest power of two that is at most x, for 1 <= x
RECURSIVE Pow2Floor(_)
Pow2Floor(x) == IF x < 2 THEN 1 ELSE 2 * Pow2Floor(x \div 2)

\* the distance between x and the next float above it
Ulp(x) == Max(1, Pow2Floor(x) \div 2 ^ (MantissaBits - 1))

\* n / d rounded to the nearest integer, ties to the even one
RoundHalfEven(n, d) ==
    LET q == n \div d
        r == n % d
    IN  IF 2 * r < d THEN q
        ELSE IF 2 * r > d THEN q + 1
        ELSE IF q % 2 = 0 THEN q ELSE q + 1

\* the float nearest to the number x, for 0 <= x
Float(x) == IF x = 0 THEN 0 ELSE RoundHalfEven(x, Ulp(x)) * Ulp(x)

\* the greatest float below the float x, for 1 < x
Pred(x) == x - Ulp(x - 1)

\* a * b for floats a and b where b is a whole number: the rounded product
FloatTimes(a, b) == Float(a * b)

\* dashboard.py line 15, main.py line 38: PREDICTION_THRESHOLD as the
\* environment sets it: the default 0.5, and a value whose percentage is
\* not a float
Thresholds == {One \div 2, 180}

\* a probability outside [0, 1]
OutOfRange == One + One \div 4

\* the probabilities given to add_prediction_result and returned by the
\* model: the threshold, the float just below it and, under the default
\* threshold, a value out of range
ProbValues ==
    {Pred(THRESHOLD), THRESHOLD} \cup {p \in {OutOfRange} : THRESHOLD = One \div 2}

----------------------------------------------------------------------------
(* app/storage.py: add_prediction_result, one action per interruptible step *)

\* line 29-32: the record built from the clock reading and the probability
NewRecord(now, p) == [timestamp |-> now, prob_ng |-> p]

\* line 33: PREDICTION_HISTORY.append(record)
AppendRecord(h, rec) == Append(h, rec)

\* line 36: len(PREDICTION_HISTORY) > MAX_HISTORY
OverCapacity(h) == Len(h) > MAX_HISTORY

\* a pop() that takes the newest record instead of pop(0)
PopNewest(h) == SubSeq(h, 1, Len(h) - 1)

\* line 37: PREDICTION_HISTORY.pop(0)
PopOldest(h) == Tail(h)

\* lines 29-32: read the clock, build the local record
BuildRecord(t, p) ==
    /\ wpc[t] = "idle"
    /\ clock <= MaxCalls
    /\ wrec' = [wrec EXCEPT ![t] = NewRecord(clock, p)]
    /\ clock' = clock + 1
    /\ wpc' = [wpc EXCEPT ![t] = "append"]
    /\ removed' = [removed EXCEPT ![t] = 0]
    /\ UNCHANGED <<THRESHOLD, last_metrics,
                   PREDICTION_HISTORY, log, readVars, predictVars>>

\* line 33
AppendStep(t) ==
    /\ wpc[t] = "append"
    /\ PREDICTION_HISTORY' = AppendRecord(PREDICTION_HISTORY, wrec[t])
    /\ log' = Append(log, wrec[t])
    /\ wpc' = [wpc EXCEPT ![t] = "test"]
    /\ last_metrics' = NoMetrics
    /\ UNCHANGED <<THRESHOLD, clock, wrec, removed, readVars, predictVars>>

\* line 36: the length test; the call returns when the list is within capacity
TestStep(t) ==
    /\ wpc[t] = "test"
    /\ IF OverCapacity(PREDICTION_HISTORY)
         THEN /\ wpc' = [wpc EXCEPT ![t] = "pop"]
              /\ wrec' = wrec
         ELSE /\ wpc' = [wpc EXCEPT ![t] = "idle"]
              /\ wrec' = [wrec EXCEPT ![t] = NoRecord]
    /\ UNCHANGED <<THRESHOLD, last_metrics,
                   PREDICTION_HISTORY, clock, log, removed, readVars, predictVars>>

\* line 37, then the call returns
PopStep(t) ==
    /\ wpc[t] = "pop"
    /\ PREDICTION_HISTORY # <<>>
    /\ PREDICTION_HISTORY' = PopOldest(PREDICTION_HISTORY)
    /\ removed' = [removed EXCEPT ![t] = removed[t] + 1]
    /\ wpc' = [wpc EXCEPT ![t] = "idle"]
    /\ wrec' = [wrec EXCEPT ![t] = NoRecord]
    /\ last_metrics' = NoMetrics
    /\ UNCHANGED <<THRESHOLD, clock, log, readVars, predictVars>>

----------------------------------------------------------------------------
(* app/dashboard.py: _build_dashboard_metrics *)

\* the emptiness test left out
HistoryNeverEmpty(h) == FALSE

\* line 24: not PREDICTION_HISTORY
HistoryIsEmpty(h) == Len(h) = 0

\* lines 29 and 40: THRESHOLD * 100.0
ThresholdPercent == FloatTimes(THRESHOLD, 100)

\* lines 25-34: the "no data" result
EmptyMetrics ==
    [has_data |-> FALSE, error |-> "none",
     timestamps |-> <<>>, prob_ng_percent |-> <<>>,
     threshold_percent |-> ThresholdPercent, marker_colors |-> <<>>,
     last |-> None, recent |-> None, streak_ng |-> None]

\* an exception leaving _build_dashboard_metrics
MetricsError(e) ==
    [has_data |-> FALSE, error |-> e,
     timestamps |-> <<>>, prob_ng_percent |-> <<>>,
     threshold_percent |-> ThresholdPercent, marker_colors |-> <<>>,
     last |-> None, recent |-> None, streak_ng |-> None]

\* a rendering relative to the time of the read
IsoFormat_Age(ts) == <<"iso", clock - ts>>

\* datetime.isoformat
IsoFormat(ts) == <<"iso", ts>>

\* line 39
ProbPercent(prob_ng_raw) == [i \in 1..Len(prob_ng_raw) |-> FloatTimes(prob_ng_raw[i], 100)]

\* line 43
IsNgList(prob_ng_percent, threshold_percent) ==
    [i \in 1..Len(prob_ng_percent) |-> prob_ng_percent[i] >= threshold_percent]

\* line 44
MarkerColors(is_ng_list) ==
    [i \in 1..Len(is_ng_list) |-> IF is_ng_list[i] THEN "#e74c3c" ELSE "#2980b9"]

\* line 51
StatusLabel(last_prob) == IF last_prob >= THRESHOLD THEN "NG" ELSE "OK"

\* lines 54-58
RecentStats(prob_ng_percent, threshold_percent) ==
    LET window == Min(RECENT_WINDOW_DEFAULT, Len(prob_ng_percent))
        recent_slice == LastN(prob_ng_percent, window)
        ng_count_recent ==
            Cardinality({i \in 1..Len(recent_slice) :
                            recent_slice[i] >= threshold_percent})
    IN  [window |-> window,
         avg_prob_percent |-> [num |-> SeqSum(recent_slice), den |-> window],
         ng_ratio_recent |-> [num |-> ng_count_recent * 100, den |-> window],
         ng_count_recent |-> ng_count_recent]

\* lines 61-68
StreakInfo(is_ng_list) ==
    IF /\ Len(is_ng_list) >= STREAK_N
       /\ \A i \in 1..Len(LastN(is_ng_list, STREAK_N)) : LastN(is_ng_list, STREAK_N)[i]
    THEN [streak_n |-> STREAK_N, is_streak |-> TRUE]
    ELSE None

\* lines 39-88, from the two local lists
BuildMetrics(timestamps, prob_ng_raw) ==
    LET prob_ng_percent == ProbPercent(prob_ng_raw)
        threshold_percent == ThresholdPercent
        is_ng_list == IsNgList(prob_ng_percent, threshold_percent)
    IN  IF prob_ng_raw = <<>> \/ timestamps = <<>>
        THEN MetricsError("IndexError")                      \* lines 47-49
        ELSE IF Min(RECENT_WINDOW_DEFAULT, Len(prob_ng_percent)) = 0
        THEN MetricsError("ZeroDivisionError")               \* line 56
        ELSE [has_data |-> TRUE, error |-> "none",
              timestamps |-> [i \in 1..Len(timestamps) |-> IsoFormat(timestamps[i])],
              prob_ng_percent |-> prob_ng_percent,
              threshold_percent |-> threshold_percent,
              marker_colors |-> MarkerColors(is_ng_list),
              last |-> [prob_percent |-> prob_ng_percent[Len(prob_ng_percent)],
                        status_label |-> StatusLabel(prob_ng_raw[Len(prob_ng_raw)]),
                        timestamp |-> IsoFormat(timestamps[Len(timestamps)])],
              recent |-> RecentStats(prob_ng_percent, threshold_percent),
              streak_ng |-> StreakInfo(is_ng_list)]

\* the two lists the read collected are the history as it is now
CollectedIsHistory ==
    /\ r_timestamps =
           [i \in 1..Len(PREDICTION_HISTORY) |-> PREDICTION_HISTORY[i].timestamp]
    /\ r_prob_ng_raw =
           [i \in 1..Len(PREDICTION_HISTORY) |-> PREDICTION_HISTORY[i].prob_ng]

\* line 24: the emptiness test, and the early return of lines 25-34
ReadStart ==
    /\ rpc = "idle"
    /\ r_seen' = Len(PREDICTION_HISTORY)
    /\ IF HistoryIsEmpty(PREDICTION_HISTORY)
         THEN /\ metrics' = EmptyMetrics
              /\ rpc' = "done"
         ELSE /\ metrics' = metrics
              /\ rpc' = "timestamps"
    /\ UNCHANGED <<THRESHOLD, last_metrics,
                   r_idx, r_timestamps, r_prob_ng_raw, storeVars, predictVars>>

\* line 36: one step of the list iterator of the first comprehension
ReadTimestamp ==
    /\ rpc = "timestamps"
    /\ IF r_idx < Len(PREDICTION_HISTORY)
         THEN /\ r_timestamps' =
                    Append(r_timestamps, PREDICTION_HISTORY[r_idx + 1].timestamp)
              /\ r_idx' = r_idx + 1
              /\ rpc' = rpc
         ELSE /\ r_timestamps' = r_timestamps
              /\ r_idx' = 0
              /\ rpc' = "prob_ng_raw"
    /\ UNCHANGED <<THRESHOLD, last_metrics,
                   r_prob_ng_raw, r_seen, metrics, storeVars, predictVars>>

\* line 37: one step of the list iterator of the second comprehension; when
\* it is exhausted lines 39-88 compute the result from the local lists
ReadProb ==
    /\ rpc = "prob_ng_raw"
    /\ IF r_idx < Len(PREDICTION_HISTORY)
         THEN /\ r_prob_ng_raw' =
                    Append(r_prob_ng_raw, PREDICTION_HISTORY[r_idx + 1].prob_ng)
              /\ r_idx' = r_idx + 1
              /\ rpc' = rpc
              /\ metrics' = metrics
         ELSE /\ r_prob_ng_raw' = r_prob_ng_raw
              /\ r_idx' = r_idx
              /\ rpc' = "done"
              /\ metrics' = BuildMetrics(r_timestamps, r_prob_ng_raw)
    /\ UNCHANGED <<THRESHOLD, last_metrics,
                   r_timestamps, r_seen, storeVars, predictVars>>

\* the response is delivered; the locals go away
ReadReturn ==
    /\ rpc = "done"
    /\ rpc' = "idle"
    /\ r_idx' = 0
    /\ r_timestamps' = <<>>
    /\ r_prob_ng_raw' = <<>>
    /\ r_seen' = 0
    /\ metrics' = NoMetrics
    /\ last_metrics' = IF CollectedIsHistory THEN metrics ELSE NoMetrics
    /\ UNCHANGED <<THRESHOLD, storeVars, predictVars>>

----------------------------------------------------------------------------
(* The prediction pipeline: app/schemas.py, app/inference.py, app/utils.py,
   app/main.py *)

\* schemas.py line 7
LSTM_SEQUENCE_LENGTH == 10

\* the longest window received
MaxRows == 11

\* schemas.py lines 18-21: the fields of a Reading, all required
Fields == {"MELT_TEMP", "MOTORSPEED", "MELT_WEIGHT", "INSP"}

\* inference.py line 22
FEATURE_COLUMNS == <<"MELT_TEMP", "MOTORSPEED">>

\* main.py line 36: the default API key
API_KEY == "happy"
Keys == {"", "happy", "wrong"}

\* a numeric cell of a data frame, and the cell of a missing value
Num(x) == [v |-> x]
NaN == [nan |-> TRUE]

NoExc == [type |-> "none", detail |-> ""]
Exc(type, detail) == [type |-> type, detail |-> detail]
NoResponse == [kind |-> "none", status |-> 0, exc |-> NoExc,
               prob_ng |-> 0, label |-> "", threshold |-> 0]

(* The windows received: every row the same, but for at most one *)
RowA == [MELT_TEMP |-> 1, MOTORSPEED |-> 2, MELT_WEIGHT |-> 3, INSP |-> 4]
RowB == [MELT_TEMP |-> 5, MOTORSPEED |-> 6, MELT_WEIGHT |-> 7, INSP |-> 8]
Without(row, f) == [g \in (DOMAIN row) \ {f} |-> row[g]]
\* float("inf"), which the request validation accepts as a float
Inf == 1000000
RowInf == [RowA EXCEPT !.MELT_TEMP = Inf]
FullRows == {RowA, RowB, RowInf}
RowPool == FullRows \cup {Without(RowA, f) : f \in Fields}
WindowOf(n, base, pos, odd) == [i \in 1..n |-> IF i = pos THEN odd ELSE base]
WindowsOver(rows) ==
    {WindowOf(n, base, pos, odd) :
        n \in 0..MaxRows, base \in rows, pos \in 1..MaxRows, odd \in rows}
Windows == WindowsOver(RowPool)
FullWindows == WindowsOver(FullRows)

\* utils.py lines 59-67: authenticate_api_key
authenticate_api_key(received_key, expected_key) ==
    IF received_key = "" THEN FALSE ELSE received_key = expected_key

\* a Reading that requires the two feature columns only
ReadingIsValid_FeaturesOnly(row) == {"MELT_TEMP", "MOTORSPEED"} \subseteq DOMAIN row

\* schemas.py lines 11-21: a Reading needs its four fields
ReadingIsValid(row) == Fields \subseteq DOMAIN row

\* schemas.py lines 37-45: PredictRequest.validate_sequence_length
validate_sequence_length(rs) ==
    IF Len(rs) # LSTM_SEQUENCE_LENGTH THEN "ValueError" ELSE "ok"

\* schemas.py lines 28-45: the validation of a PredictRequest: the rows
\* first, then the field validator
PredictRequestValidation(rs) ==
    IF \E i \in 1..Len(rs) : ~ReadingIsValid(rs[i])
    THEN Exc("ValidationError", "missing field")
    ELSE IF validate_sequence_length(rs) = "ValueError"
    THEN Exc("ValidationError", "sequence length")
    ELSE NoExc

\* main.py line 96: r.model_dump(), the fields the Reading holds
model_dump(row) == [f \in Fields \cap DOMAIN row |-> row[f]]

\* a length test that lets short windows through
LengthMismatch_OnlyLonger(rs) == Len(rs) > LSTM_SEQUENCE_LENGTH

\* inference.py line 40
LengthMismatch(rs) == Len(rs) # LSTM_SEQUENCE_LENGTH

\* inference.py line 48: the columns of pd.DataFrame(readings)
FrameColumns(rs) == UNION {DOMAIN rs[i] : i \in 1..Len(rs)}

\* inference.py lines 48-49: the frame restricted to the given columns, a
\* value a row lacks being NaN
SelectColumns(rs, cols) ==
    [i \in 1..Len(rs) |->
        [j \in 1..Len(cols) |->
            IF cols[j] \in DOMAIN rs[i] THEN Num(rs[i][cols[j]]) ELSE NaN]]

\* the scaler was fit on the feature columns
ScalerFeatures == Len(FEATURE_COLUMNS)

\* the fitted MinMaxScaler on one value of column j: x * scale_[j] + min_[j]
Scale(j, cell) == IF cell = NaN THEN NaN ELSE Num(cell.v * (j + 1) + 10 * j)

\* utils.py line 40: scaler.transform fails on another number of features
\* and on an infinite value
TransformFails(m) ==
    \E i \in 1..Len(m) :
        \/ Len(m[i]) # ScalerFeatures
        \/ \E j \in 1..Len(m[i]) : m[i][j] = Num(Inf)

\* utils.py line 40: scaler.transform(df_raw.values)
Transform(m) == [i \in 1..Len(m) |-> [j \in 1..Len(m[i]) |-> Scale(j, m[i][j])]]

\* the row-count test left out
TooFewRows_Never(m, sequence_length) == FALSE

\* utils.py line 47
TooFewRows(m, sequence_length) == Len(m) < sequence_length

\* utils.py line 51: numpy cannot reshape another number of values
ReshapeFails(m, sequence_length) == Len(LastN(m, sequence_length)) # sequence_length

RECURSIVE Flatten(_)
Flatten(m) == IF m = <<>> THEN <<>> ELSE Head(m) \o Flatten(Tail(m))

\* numpy's reshape(1, n, c) of a matrix: row-major
Reshape(m, n, c) ==
    LET flat == Flatten(m)
    IN  << [i \in 1..n |-> [j \in 1..c |-> flat[(i - 1) * c + j]]] >>

\* the rows in reverse order
WindowTensor_Reversed(m, sequence_length) ==
    Reshape([i \in 1..sequence_length |-> m[sequence_length + 1 - i]],
            sequence_length, Len(m[1]))

\* utils.py line 51
WindowTensor(m, sequence_length) ==
    Reshape(LastN(m, sequence_length), sequence_length, Len(m[1]))

\* every exception taken for a ValueError
IsValueError_Any(e) == TRUE

\* a threshold that is exclusive
post_process_Exclusive(p, threshold) == IF p > threshold THEN "NG" ELSE "OK"

\* inference.py lines 67-79
post_process(p, threshold) == IF p >= threshold THEN "NG" ELSE "OK"

\* the exceptions main.py line 100 catches as ValueError
IsValueError(e) == e.type \in {"ValueError", "EmptyDataError"}

\* an exception leaves the function called: to the except clauses of
\* main.predict, or to the direct caller
Raise(e) ==
    /\ exc' = e
    /\ IF entry = "http"
         THEN /\ ppc' = "except"
              /\ response' = response
         ELSE /\ ppc' = "done"
              /\ response' = [NoResponse EXCEPT !.kind = "raised", !.exc = e]

\* POST /predict arrives
HttpRequest(w, key) ==
    /\ ppc = "idle"
    /\ entry' = "http"
    /\ readings' = w
    /\ authorized' = authenticate_api_key(key, API_KEY)
    /\ ppc' = "auth"
    /\ UNCHANGED <<THRESHOLD, last_metrics,
                   df, data_scaled, X_inference, prob_ng, exc, label, calls,
                   predict_arg, alerts, response, storeVars, readVars>>

\* main.py lines 62-68 and 88: the get_api_key dependency
Authenticate ==
    /\ ppc = "auth"
    /\ IF authorized
         THEN /\ ppc' = "validate"
              /\ response' = response
         ELSE /\ ppc' = "done"
              /\ response' = [NoResponse EXCEPT !.kind = "http", !.status = 401]
    /\ UNCHANGED <<THRESHOLD, last_metrics,
                   entry, authorized, readings, df, data_scaled, X_inference,
                   prob_ng, exc, label, calls, predict_arg, alerts,
                   storeVars, readVars>>

\* main.py line 89 (req: PredictRequest): the request body is validated
\* before the handler runs; a failure is answered 422.  Line 96 dumps the
\* validated rows.
ValidateRequest ==
    /\ ppc = "validate"
    /\ calls' = Append(calls, "PredictRequest")
    /\ LET e == PredictRequestValidation(readings)
       IN  IF e # NoExc
           THEN /\ ppc' = "done"
                /\ exc' = e
                /\ response' = [NoResponse EXCEPT !.kind = "http",
                                                  !.status = 422, !.exc = e]
                /\ readings' = readings
           ELSE /\ ppc' = "len_check"
                /\ exc' = exc
                /\ response' = response
                /\ readings' = [i \in 1..Len(readings) |-> model_dump(readings[i])]
    /\ UNCHANGED <<THRESHOLD, last_metrics,
                   entry, authorized, df, data_scaled, X_inference, prob_ng,
                   label, predict_arg, alerts, storeVars, readVars>>

\* predict_prob called directly
CallPredictProb(w) ==
    /\ ppc = "idle"
    /\ entry' = "predict_prob"
    /\ readings' = w
    /\ ppc' = "len_check"
    /\ UNCHANGED <<THRESHOLD, last_metrics,
                   authorized, df, data_scaled, X_inference, prob_ng, exc, label,
                   calls, predict_arg, alerts, response, storeVars, readVars>>

\* prepare_lstm_input called directly, with sequence_length = LSTM_SEQUENCE_LENGTH
CallPrepare(w, cols) ==
    /\ ppc = "idle"
    /\ entry' = "prepare_lstm_input"
    /\ readings' = w
    /\ df' = SelectColumns(w, cols)
    /\ ppc' = "empty_check"
    /\ UNCHANGED <<THRESHOLD, last_metrics,
                   authorized, data_scaled, X_inference, prob_ng, exc, label,
                   calls, predict_arg, alerts, response, storeVars, readVars>>

\* inference.py lines 40-44
LengthCheck ==
    /\ ppc = "len_check"
    /\ calls' = Append(calls, "len_check")
    /\ IF LengthMismatch(readings)
         THEN Raise(Exc("ValueError", "sequence length"))
         ELSE /\ ppc' = "frame"
              /\ UNCHANGED <<exc, response>>
    /\ UNCHANGED <<THRESHOLD, last_metrics,
                   entry, authorized, readings, df, data_scaled, X_inference,
                   prob_ng, label, predict_arg, alerts, storeVars, readVars>>

\* inference.py lines 48-49
MakeFrame ==
    /\ ppc = "frame"
    /\ IF \E j \in 1..Len(FEATURE_COLUMNS) : FEATURE_COLUMNS[j] \notin FrameColumns(readings)
         THEN /\ Raise(Exc("KeyError", "column"))
              /\ df' = df
         ELSE /\ df' = SelectColumns(readings, FEATURE_COLUMNS)
              /\ ppc' = "empty_check"
              /\ UNCHANGED <<exc, response>>
    /\ UNCHANGED <<THRESHOLD, last_metrics,
                   entry, authorized, readings, data_scaled, X_inference, prob_ng,
                   label, calls, predict_arg, alerts, storeVars, readVars>>

\* utils.py lines 35-36
EmptyCheck ==
    /\ ppc = "empty_check"
    /\ IF df = <<>>
         THEN Raise(Exc("EmptyDataError", "empty"))
         ELSE /\ ppc' = "transform"
              /\ UNCHANGED <<exc, response>>
    /\ UNCHANGED <<THRESHOLD, last_metrics,
                   entry, authorized, readings, df, data_scaled, X_inference,
                   prob_ng, label, calls, predict_arg, alerts, storeVars, readVars>>

\* utils.py lines 39-43
TransformStep ==
    /\ ppc = "transform"
    /\ calls' = Append(calls, "scaler.transform")
    /\ IF TransformFails(df)
         THEN /\ Raise(Exc("ValueError", "normalization"))
              /\ data_scaled' = data_scaled
         ELSE /\ data_scaled' = Transform(df)
              /\ ppc' = "row_check"
              /\ UNCHANGED <<exc, response>>
    /\ UNCHANGED <<THRESHOLD, last_metrics,
                   entry, authorized, readings, df, X_inference, prob_ng, label,
                   predict_arg, alerts, storeVars, readVars>>

\* utils.py lines 47-53
RowCheck ==
    /\ ppc = "row_check"
    /\ calls' = Append(calls, "row_check")
    /\ IF TooFewRows(data_scaled, LSTM_SEQUENCE_LENGTH)
         THEN /\ Raise(Exc("ValueError", "insufficient rows"))
              /\ X_inference' = X_inference
         ELSE IF ReshapeFails(data_scaled, LSTM_SEQUENCE_LENGTH)
         THEN /\ Raise(Exc("ValueError", "reshape"))
              /\ X_inference' = X_inference
         ELSE /\ X_inference' = WindowTensor(data_scaled, LSTM_SEQUENCE_LENGTH)
              /\ exc' = exc
              /\ IF entry = "prepare_lstm_input"
                   THEN /\ ppc' = "done"
                        /\ response' = [NoResponse EXCEPT !.kind = "returned"]
                   ELSE /\ ppc' = "model_predict"
                        /\ response' = response
    /\ UNCHANGED <<THRESHOLD, last_metrics,
                   entry, authorized, readings, df, data_scaled, prob_ng, label,
                   predict_arg, alerts, storeVars, readVars>>

\* inference.py lines 57-61: the model answers p
ModelPredict(p) ==
    /\ ppc = "model_predict"
    /\ calls' = Append(calls, "model.predict")
    /\ predict_arg' = X_inference
    /\ prob_ng' = p
    /\ IF entry = "predict_prob"
         THEN /\ ppc' = "done"
              /\ response' = [NoResponse EXCEPT !.kind = "returned", !.prob_ng = p]
         ELSE /\ ppc' = "post_process"
              /\ response' = response
    /\ UNCHANGED <<THRESHOLD, last_metrics,
                   entry, authorized, readings, df, data_scaled, X_inference, exc,
                   label, alerts, storeVars, readVars>>

\* inference.py line 57: the model raises
ModelPredictFails ==
    /\ ppc = "model_predict"
    /\ calls' = Append(calls, "model.predict")
    /\ predict_arg' = X_inference
    /\ Raise(Exc("RuntimeError", "model"))
    /\ UNCHANGED <<THRESHOLD, last_metrics,
                   entry, authorized, readings, df, data_scaled, X_inference,
                   prob_ng, label, alerts, storeVars, readVars>>

\* main.py lines 100-105
ExceptStep ==
    /\ ppc = "except"
    /\ response' = [NoResponse EXCEPT !.kind = "http", !.exc = exc,
                        !.status = IF IsValueError(exc) THEN 400 ELSE 500]
    /\ ppc' = "done"
    /\ UNCHANGED <<THRESHOLD, last_metrics,
                   entry, authorized, readings, df, data_scaled, X_inference,
                   prob_ng, exc, label, calls, predict_arg, alerts,
                   storeVars, readVars>>

\* main.py line 108
PostProcessStep ==
    /\ ppc = "post_process"
    /\ calls' = Append(calls, "post_process")
    /\ label' = post_process(prob_ng, THRESHOLD)
    /\ ppc' = "alert"
    /\ UNCHANGED <<THRESHOLD, last_metrics,
                   entry, authorized, readings, df, data_scaled, X_inference,
                   prob_ng, exc, predict_arg, alerts, response,
                   storeVars, readVars>>

\* main.py lines 111-113
AlertStep ==
    /\ ppc = "alert"
    /\ alerts' = IF label = "NG"
                   THEN Append(alerts, "send_alert_notification")
                   ELSE alerts
    /\ ppc' = "respond"
    /\ UNCHANGED <<THRESHOLD, last_metrics,
                   entry, authorized, readings, df, data_scaled, X_inference,
                   prob_ng, exc, label, calls, predict_arg, response,
                   storeVars, readVars>>

\* main.py line 118
Respond ==
    /\ ppc = "respond"
    /\ response' = [NoResponse EXCEPT !.kind = "http", !.status = 200,
                        !.prob_ng = prob_ng, !.label = label,
                        !.threshold = THRESHOLD]
    /\ ppc' = "done"
    /\ UNCHANGED <<THRESHOLD, last_metrics,
                   entry, authorized, readings, df, data_scaled, X_inference,
                   prob_ng, exc, label, calls, predict_arg, alerts,
                   storeVars, readVars>>

\* the call is over; its locals go away
Finish ==
    /\ ppc = "done"
    /\ ppc' = "idle"
    /\ entry' = "none"
    /\ authorized' = FALSE
    /\ readings' = <<>>
    /\ df' = <<>>
    /\ data_scaled' = <<>>
    /\ X_inference' = <<>>
    /\ prob_ng' = 0
    /\ exc' = NoExc
    /\ label' = ""
    /\ calls' = <<>>
    /\ predict_arg' = <<>>
    /\ alerts' = <<>>
    /\ response' = NoResponse
    /\ UNCHANGED <<THRESHOLD, last_metrics, storeVars, readVars>>

----------------------------------------------------------------------------
(* Specifications *)

Init ==
    /\ THRESHOLD \in Thresholds
    /\ PREDICTION_HISTORY = <<>>
    /\ clock = 1
    /\ wpc = [t \in Writers |-> "idle"]
    /\ wrec = [t \in Writers |-> NoRecord]
    /\ log = <<>>
    /\ removed = [t \in Writers |-> 0]
    /\ rpc = "idle"
    /\ r_idx = 0
    /\ r_timestamps = <<>>
    /\ r_prob_ng_raw = <<>>
    /\ r_seen = 0
    /\ metrics = NoMetrics
    /\ last_metrics = NoMetrics
    /\ ppc = "idle"
    /\ entry = "none"
    /\ authorized = FALSE
    /\ readings = <<>>
    /\ df = <<>>
    /\ data_scaled = <<>>
    /\ X_inference = <<>>
    /\ prob_ng = 0
    /\ exc = NoExc
    /\ label = ""
    /\ calls = <<>>
    /\ predict_arg = <<>>
    /\ alerts = <<>>
    /\ response = NoResponse

Read == ReadStart \/ ReadTimestamp \/ ReadProb \/ ReadReturn

AddPrediction(t) ==
    \/ \E p \in ProbValues : BuildRecord(t, p)
    \/ AppendStep(t)
    \/ TestStep(t)
    \/ PopStep(t)

\* concurrent callers of add_prediction_result
NextStore == \E t \in Writers : AddPrediction(t)

SpecStore == Init /\ [][NextStore]_vars

\* one caller at a time (sequential calls of add_prediction_result), and a
\* metrics read running concurrently with it
NextSeq == AddPrediction("w1") \/ Read

SpecSeq == Init /\ [][NextSeq]_vars

ColumnChoices == {FEATURE_COLUMNS, FEATURE_COLUMNS \o <<"MELT_WEIGHT">>}

\* prediction calls, one at a time: POST /predict, and predict_prob and
\* prepare_lstm_input called directly
NextPredict ==
    \/ \E w \in Windows, key \in Keys : HttpRequest(w, key)
    \/ \E w \in Windows : CallPredictProb(w)
    \/ \E w \in FullWindows, cols \in ColumnChoices : CallPrepare(w, cols)
    \/ Authenticate
    \/ ValidateRequest
    \/ LengthCheck
    \/ MakeFrame
    \/ EmptyCheck
    \/ TransformStep
    \/ RowCheck
    \/ \E p \in ProbValues : ModelPredict(p)
    \/ ModelPredictFails
    \/ ExceptStep
    \/ PostProcessStep
    \/ AlertStep
    \/ Respond
    \/ Finish

SpecPredict == Init /\ [][NextPredict]_vars

----------------------------------------------------------------------------
(* Properties of the history store and the metrics read *)

AllReturned == \A t \in Writers : wpc[t] = "idle"

\* the last Min(n, MAX_HISTORY) records appended, in append order
LastInserted == LastN(log, Min(Len(log), MAX_HISTORY))

\* C1: strict FIFO at capacity.  After n sequential calls from an empty
\* history, the history holds the last min(n, M) records inserted, in
\* insertion order: for n = M + k, k > 0, exactly M records, the first of
\* them the (k+1)-th inserted.
C1_StrictFifo ==
    AllReturned =>
        LET n == Len(log)
            k == n - MAX_HISTORY
        IN  /\ Len(PREDICTION_HISTORY) = Min(n, MAX_HISTORY)
            /\ \A i \in 1..Len(PREDICTION_HISTORY) :
                   PREDICTION_HISTORY[i] = log[n - Len(PREDICTION_HISTORY) + i]
            /\ k > 0 => /\ Len(PREDICTION_HISTORY) = MAX_HISTORY
                        /\ PREDICTION_HISTORY[1] = log[k + 1]

C1_Witness ==
    /\ AllReturned
    /\ Len(log) = MAX_HISTORY + 2
    /\ Len(PREDICTION_HISTORY) = MAX_HISTORY
    /\ PREDICTION_HISTORY[1] = log[3]

\* C2: in every reachable state, the states between the steps of a call
\* included, the history holds at most M records, and a metrics read never
\* collects more than M records.
C2_NeverAboveCapacity ==
    /\ Len(PREDICTION_HISTORY) <= MAX_HISTORY
    /\ Len(r_timestamps) <= MAX_HISTORY
    /\ Len(r_prob_ng_raw) <= MAX_HISTORY

\* C3: a completed metrics read is one point-in-time copy: the three series
\* have the same length, element i of each comes from the same record, and
\* the last-value fields come from one record too.
C3_ConsistentRead ==
    (rpc = "done" /\ metrics.has_data) =>
        /\ Len(metrics.timestamps) = Len(metrics.prob_ng_percent)
        /\ Len(metrics.marker_colors) = Len(metrics.prob_ng_percent)
        /\ \A i \in 1..Len(metrics.timestamps) :
               \E j \in 1..Len(log) :
                   /\ metrics.timestamps[i] = IsoFormat(log[j].timestamp)
                   /\ i <= Len(metrics.prob_ng_percent)
                   /\ metrics.prob_ng_percent[i] = FloatTimes(log[j].prob_ng, 100)
        /\ \E j \in 1..Len(log) :
               /\ metrics.last.timestamp = IsoFormat(log[j].timestamp)
               /\ metrics.last.prob_percent = FloatTimes(log[j].prob_ng, 100)

\* C5: when concurrent calls have all returned, each has removed at most one
\* record, the number removed is max(0, inserted - M), and the survivors are
\* the most recently inserted records in insertion order.
C5_ConcurrentEviction ==
    AllReturned =>
        /\ \A t \in Writers : removed[t] <= 1
        /\ Len(log) - Len(PREDICTION_HISTORY) = Max(0, Len(log) - MAX_HISTORY)
        /\ PREDICTION_HISTORY = LastInserted

\* C10: a metrics read that finds the history empty returns has_data = false,
\* empty series and null last, recent and streak_ng; a read that finds a
\* record returns has_data = true with last and recent present; neither
\* ends in a division by zero or an index error.
C10_EmptyHistoryMetrics ==
    rpc = "done" =>
        /\ metrics.error = "none"
        /\ r_seen = 0 =>
              /\ metrics.has_data = FALSE
              /\ metrics.timestamps = <<>>
              /\ metrics.prob_ng_percent = <<>>
              /\ metrics.marker_colors = <<>>
              /\ metrics.last = None
              /\ metrics.recent = None
              /\ metrics.streak_ng = None
        /\ r_seen > 0 =>
              /\ metrics.has_data = TRUE
              /\ metrics.last # None
              /\ metrics.recent # None
              /\ metrics.recent.window > 0
        /\ PREDICTION_HISTORY = <<>> => metrics.has_data = FALSE

C10_Witness ==
    /\ rpc = "done"
    /\ r_seen = 0
    /\ PREDICTION_HISTORY = <<>>
    /\ metrics.has_data = FALSE
    /\ metrics.last = None

\* the failing marker colour of dashboard.py line 44
FailingColour == "#e74c3c"

\* the positions of the last n entries of a list of length len
LastPositions(len, n) == {i \in 1..len : i > len - n}

\* C11: the threshold is inclusive and applied uniformly.  A record is
\* failing exactly when its probability is at least the threshold, at every
\* site that classifies it: post_process's label, the metrics'
\* last.status_label, each point's marker colour and the count
\* ng_count_recent; so for the records of one metrics result the sites never
\* disagree, and last.status_label is "NG" exactly when the last marker has
\* the failing colour.
C11_UniformThreshold ==
    (rpc = "done" /\ metrics.has_data) =>
        LET n == Len(r_prob_ng_raw)
            Failing(i) == r_prob_ng_raw[i] >= THRESHOLD
        IN  /\ \A i \in 1..n :
                   /\ post_process(r_prob_ng_raw[i], THRESHOLD) = "NG" <=> Failing(i)
                   /\ metrics.marker_colors[i] = FailingColour <=> Failing(i)
            /\ metrics.last.status_label = "NG" <=> Failing(n)
            /\ metrics.last.status_label = "NG"
                   <=> metrics.marker_colors[n] = FailingColour
            /\ metrics.recent.ng_count_recent =
                   Cardinality({i \in LastPositions(n, metrics.recent.window) :
                                   Failing(i)})

\* the metrics read has returned, and the two lists it collected are the
\* history as it is now
ReadOfHistory == rpc = "done" /\ CollectedIsHistory

\* the record at position i of the history is failing
FailingRecord(i) == PREDICTION_HISTORY[i].prob_ng >= THRESHOLD

\* C12: rolling window statistics.  For every non-empty history of length n,
\* recent.window is min(W, n), recent.avg_prob_percent is the arithmetic mean
\* of the last recent.window probabilities as percentages,
\* recent.ng_count_recent is the number of failing records among exactly
\* those records, so it lies between 0 and the window, and
\* recent.ng_ratio_recent is the fraction ng_count_recent / window.
C12_RollingWindow ==
    (ReadOfHistory /\ PREDICTION_HISTORY # <<>>) =>
        LET n == Len(PREDICTION_HISTORY)
            w == Min(RECENT_WINDOW_DEFAULT, n)
            percents ==
                [i \in 1..w |-> FloatTimes(PREDICTION_HISTORY[n - w + i].prob_ng, 100)]
            recent == metrics.recent
        IN  /\ metrics.has_data
            /\ recent.window = w
            /\ recent.avg_prob_percent.num = SeqSum(percents)
            /\ recent.avg_prob_percent.den = w
            /\ recent.ng_count_recent =
                   Cardinality({i \in LastPositions(n, w) : FailingRecord(i)})
            /\ recent.ng_count_recent >= 0
            /\ recent.ng_count_recent <= recent.window
            /\ recent.ng_ratio_recent.num * recent.window =
                   recent.ng_count_recent * recent.ng_ratio_recent.den

\* C13: the consecutive-failure alert is a trailing-window check.  After any
\* sequence of appends, streak_ng is {streak_n: S, is_streak: true} if and
\* only if the history holds at least S records and the last S records are
\* all failing; otherwise it is null, so one passing record among the last S
\* clears the alert whatever preceded it.
C13_StreakIsTrailingWindow ==
    (ReadOfHistory /\ PREDICTION_HISTORY # <<>>) =>
        LET n == Len(PREDICTION_HISTORY)
        IN  IF n >= STREAK_N /\ \A i \in LastPositions(n, STREAK_N) : FailingRecord(i)
            THEN metrics.streak_ng = [streak_n |-> STREAK_N, is_streak |-> TRUE]
            ELSE metrics.streak_ng = None

\* the history is what the calls of add_prediction_result, one at a time,
\* have made of the records appended so far
HistoryIsWritersWork ==
    LET n == Len(log)
        len == CASE wpc["w1"] \in {"idle", "append"} -> Min(n, MAX_HISTORY)
                 [] wpc["w1"] = "test" -> Min(n, MAX_HISTORY + 1)
                 [] wpc["w1"] = "pop" -> MAX_HISTORY + 1
    IN  PREDICTION_HISTORY = IF len = 0 THEN <<>> ELSE LastN(log, len)

C16_StoreValidatesInput ==
    /\ \A i \in 1..Len(PREDICTION_HISTORY) :
           /\ PREDICTION_HISTORY[i].prob_ng >= 0
           /\ PREDICTION_HISTORY[i].prob_ng <= One
    /\ (rpc = "done" /\ metrics.has_data) =>
           \A i \in 1..Len(metrics.prob_ng_percent) :
               /\ metrics.prob_ng_percent[i] >= 0
               /\ metrics.prob_ng_percent[i] <= 100 * One

\* C17: insertion order is chronological order, also under concurrency.  For
\* every interleaving of concurrent add_prediction_result calls, each of
\* which reads the clock to build its record and only then appends it, the
\* timestamps of the records in the history are non-decreasing from first
\* to last, so the timestamps the metrics report are ordered and
\* last.timestamp is the greatest.
C17_ChronologicalOrder ==
    /\ \A i, j \in 1..Len(PREDICTION_HISTORY) :
           i < j => PREDICTION_HISTORY[i].timestamp <= PREDICTION_HISTORY[j].timestamp
    /\ (rpc = "done" /\ metrics.has_data) =>
           \A i \in 1..Len(metrics.timestamps) :
               /\ \A j \in 1..Len(metrics.timestamps) :
                      i < j => metrics.timestamps[i][2] <= metrics.timestamps[j][2]
               /\ metrics.timestamps[i][2] <= metrics.last.timestamp[2]

----------------------------------------------------------------------------
(* Properties of the prediction pipeline *)

Called(c) == \E i \in 1..Len(calls) : calls[i] = c
Before(c, i) == \E j \in 1..(i - 1) : calls[j] = c
RowsComplete == \A i \in 1..Len(readings) : Fields \ DOMAIN readings[i] = {}

\* C4: a prediction request that completes successfully has appended one
\* record carrying its probability to the history.
C4_CompletedPredictionRecorded ==
    (entry = "http" /\ ppc = "done" /\ response.status = 200) =>
        /\ PREDICTION_HISTORY # <<>>
        /\ PREDICTION_HISTORY[Len(PREDICTION_HISTORY)].prob_ng = response.prob_ng

\* C6: a window of a length other than N fails with a ValueError, in the
\* request validator and in predict_prob, and nothing is computed from it;
\* a window of exactly N complete rows passes the length check of both.
C6_WindowLengthValidation ==
    /\ (validate_sequence_length(readings) = "ValueError")
           <=> (Len(readings) # LSTM_SEQUENCE_LENGTH)
    /\ (entry = "http" /\ Called("PredictRequest")
            /\ Len(readings) # LSTM_SEQUENCE_LENGTH) =>
           /\ ppc = "done"
           /\ exc.type = "ValidationError"
           /\ response.status = 422
           /\ ~Called("len_check")
    /\ (entry = "predict_prob" /\ Called("len_check")
            /\ Len(readings) # LSTM_SEQUENCE_LENGTH) =>
           /\ ppc = "done"
           /\ response.kind = "raised"
           /\ exc = Exc("ValueError", "sequence length")
           /\ calls = <<"len_check">>
    /\ (entry = "http" /\ Called("PredictRequest") /\ RowsComplete
            /\ Len(readings) = LSTM_SEQUENCE_LENGTH) =>
           /\ exc.type # "ValidationError"
           /\ response.status # 422
    /\ (entry \in {"http", "predict_prob"} /\ Called("len_check")
            /\ Len(readings) = LSTM_SEQUENCE_LENGTH) =>
           /\ exc.detail # "sequence length"
           /\ ppc # "len_check"

C6_Witness ==
    /\ entry = "predict_prob"
    /\ Len(readings) = LSTM_SEQUENCE_LENGTH - 1
    /\ RowsComplete
    /\ ppc = "done"
    /\ exc = Exc("ValueError", "sequence length")

\* C7: a request of N rows of which one lacks a mandatory field is answered
\* with the validation failure a length mismatch gets (422, never 500),
\* and neither scaler.transform nor model.predict is called for it.
C7_MissingFieldRejected ==
    (entry = "http" /\ Called("PredictRequest")
        /\ Len(readings) = LSTM_SEQUENCE_LENGTH /\ ~RowsComplete) =>
        /\ ppc = "done"
        /\ response.kind = "http"
        /\ response.status = 422
        /\ exc.type = PredictRequestValidation(<<>>).type
        /\ exc.detail = "missing field"
        /\ ~Called("scaler.transform")
        /\ ~Called("model.predict")

C7_Witness ==
    /\ entry = "http"
    /\ Called("PredictRequest")
    /\ Len(readings) = LSTM_SEQUENCE_LENGTH
    /\ "INSP" \notin DOMAIN readings[LSTM_SEQUENCE_LENGTH]
    /\ response.status = 422

\* C8 as stated: on every path the row-count check comes before
\* scaler.transform, which is never called on a window the check rejects,
\* in predict_prob and in prepare_lstm_input called on its own.
C8_RowCheckBeforeTransform ==
    \A i \in 1..Len(calls) :
        calls[i] = "scaler.transform" =>
            /\ Before("len_check", i) \/ Before("row_check", i)
            /\ ~TooFewRows(df, LSTM_SEQUENCE_LENGTH)

\* C8 as amended: in predict_prob the length check comes before
\* scaler.transform and model.predict, neither of which is called on a window
\* it rejects; prepare_lstm_input called on its own transforms first and
\* checks the row count after, so a window of fewer rows is transformed and
\* then rejected with a ValueError: no tensor, no call of model.predict.
C8_LengthCheckBeforeTransform ==
    /\ entry \in {"http", "predict_prob"} =>
           \A i \in 1..Len(calls) :
               calls[i] \in {"scaler.transform", "model.predict"} =>
                   /\ Before("len_check", i)
                   /\ Len(readings) = LSTM_SEQUENCE_LENGTH
    /\ entry = "prepare_lstm_input" =>
           /\ \A i \in 1..Len(calls) :
                  calls[i] = "row_check" => Before("scaler.transform", i)
           /\ ~Called("model.predict")
           /\ (ppc = "done" /\ df # <<>> /\ Len(df) < LSTM_SEQUENCE_LENGTH) =>
                  /\ Called("scaler.transform")
                  /\ response.kind = "raised"
                  /\ exc.type = "ValueError"
                  /\ exc.detail \in {"insufficient rows", "normalization"}
                  /\ X_inference = <<>>

C8_Witness ==
    /\ entry = "prepare_lstm_input"
    /\ ppc = "done"
    /\ Len(df) = LSTM_SEQUENCE_LENGTH - 1
    /\ calls = <<"scaler.transform", "row_check">>
    /\ exc = Exc("ValueError", "insufficient rows")

\* C9: for a valid window the tensor given to the model has shape (1, N, 2),
\* and its row i is the scaler's output for MELT_TEMP and MOTORSPEED, in
\* that order, of the i-th reading.
C9_TensorKeepsOrder ==
    (entry \in {"http", "predict_prob"} /\ Called("model.predict")
        /\ RowsComplete /\ Len(readings) = LSTM_SEQUENCE_LENGTH) =>
        /\ Len(predict_arg) = 1
        /\ Len(predict_arg[1]) = LSTM_SEQUENCE_LENGTH
        /\ \A i \in 1..LSTM_SEQUENCE_LENGTH :
               predict_arg[1][i] =
                   << Scale(1, Num(readings[i].MELT_TEMP)),
                      Scale(2, Num(readings[i].MOTORSPEED)) >>

C9_Witness ==
    /\ entry = "http"
    /\ Called("model.predict")
    /\ Len(readings) = LSTM_SEQUENCE_LENGTH
    /\ readings[1] = RowA
    /\ readings[2] = RowB
    /\ predict_arg[1][2] = <<Num(10 + 2 * 5), Num(20 + 3 * 6)>>

\* C15: the alert trigger.  For every prediction request the alert
\* notification is scheduled exactly once if the returned probability is
\* failing (prob_ng >= threshold, label "NG") and not at all if it is passing
\* or if no probability was returned; the label of the response is the
\* classification that decided the alert.
C15_AlertTrigger ==
    /\ Len(alerts) <= 1
    /\ alerts # <<>> =>
           /\ alerts = <<"send_alert_notification">>
           /\ entry = "http"
           /\ ppc \in {"respond", "done"}
    /\ (entry = "http" /\ ppc = "respond") =>
           /\ label = "NG" <=> prob_ng >= THRESHOLD
           /\ alerts # <<>> <=> label = "NG"
    /\ (entry = "http" /\ ppc = "done") =>
           IF response.status = 200
           THEN /\ response.prob_ng = prob_ng
                /\ response.label = label
                /\ response.label = "NG" <=> response.prob_ng >= THRESHOLD
                /\ alerts # <<>> <=> response.label = "NG"
           ELSE alerts = <<>>

C15_Witness ==
    /\ entry = "http"
    /\ ppc = "done"
    /\ response.status = 200
    /\ response.prob_ng = THRESHOLD
    /\ response.label = "NG"
    /\ alerts = <<"send_alert_notification">>

\* how many times the call c was made
TimesCalled(c) == Cardinality({i \in 1..Len(calls) : calls[i] = c})

\* predict_prob, called by main.predict, raised
PredictProbRaised == entry = "http" /\ Called("len_check") /\ exc # NoExc

\* C18: a failed prediction has no downstream effect.  Whenever predict_prob
\* raises, a ValueError of its length or normalization checks or any other
\* exception, the request ends with the error response, 400 for the
\* ValueError and 500 otherwise; post_process is never reached, no alert
\* notification is scheduled, the history is left unchanged and nothing is
\* retried.
C18_FailedPredictionNoEffect ==
    PredictProbRaised =>
        /\ ppc \in {"except", "done"}
        /\ ~Called("post_process")
        /\ label = ""
        /\ alerts = <<>>
        /\ PREDICTION_HISTORY = <<>>
        /\ log = <<>>
        /\ \A c \in {"PredictRequest", "len_check", "scaler.transform",
                      "row_check", "model.predict"} : TimesCalled(c) <= 1
        /\ ppc = "done" =>
               /\ response.kind = "http"
               /\ response.exc = exc
               /\ response.status =
                      IF exc.type \in {"ValueError", "EmptyDataError"}
                      THEN 400 ELSE 500
               /\ response.label = NoResponse.label
               /\ response.prob_ng = NoResponse.prob_ng

C18_Witness ==
    /\ PredictProbRaised
    /\ ppc = "done"
    /\ exc.type = "ValueError"
    /\ response.status = 400
    /\ Called("scaler.transform")
    /\ alerts = <<>>

====
